---- MODULE Spec2Model ----
(***************************************************************************)
(* A model of scripts/scraper.py: the GooglePlayScraper class.             *)
(*                                                                         *)
(* Text is a sequence of one-character strings, so that replace(' ', '_'), *)
(* strftime and the file-name f-string are computed, not assumed.  A       *)
(* Python value that may be None is a sequence of length 0 (None) or 1.    *)
(* The file system is a set of directories and a map from paths to file    *)
(* contents; a CSV file's content is its header row and its data rows, a   *)
(* row being the sequence of its fields as csv.DictWriter writes them      *)
(* (None as the empty field, an int as its decimal digits).                *)
(***************************************************************************)
EXTENDS Integers, Sequences, FiniteSets, TLC

\* ------------------------------------------------------------------ bounds
\* Largest number of keys of app_ids_map.
MaxApps == 2
\* Largest number of scrape_all_apps() calls made on one instance.
MaxRuns == 2
\* Longest list handed to a direct call of save_reviews_to_csv.
MaxReviews == 2

\* ------------------------------------------------------------- Python values
None == <<>>
Some(x) == <<x>>
IsNone(o) == o = <<>>
Val(o) == o[1]

Range(s) == {s[k] : k \in 1..Len(s)}

\* A value held under a key of a review dict: the key is absent, or holds
\* None, a str, an int or a datetime (year, month, day, hour, minute, second).
Absent == [kind |-> "absent", v |-> <<>>]
PyNone == [kind |-> "none", v |-> <<>>]
PyStr(s) == [kind |-> "str", v |-> s]
PyInt(n) == [kind |-> "int", v |-> <<n>>]
PyDatetime(y, mo, d, h, mi, s) == [kind |-> "datetime", v |-> <<y, mo, d, h, mi, s>>]

\* dict.get(key, default): the default only when the key is absent.
Get(entry, key, default) ==
    IF entry[key].kind = "absent" THEN default ELSE entry[key]

\* ------------------------------------------------------------------- text
Digit(n) == CASE n = 0 -> "0" [] n = 1 -> "1" [] n = 2 -> "2" [] n = 3 -> "3"
              [] n = 4 -> "4" [] n = 5 -> "5" [] n = 6 -> "6" [] n = 7 -> "7"
              [] n = 8 -> "8" [] n = 9 -> "9"

RECURSIVE Digits(_)
\* str(n) for n >= 0: the decimal digits, most significant first.
Digits(n) == IF n < 10 THEN <<Digit(n)>> ELSE Digits(n \div 10) \o <<Digit(n % 10)>>

RECURSIVE ZeroPad(_, _)
\* The digits of n, left-padded with zeros to the given width (%m, %d, %H, ...).
ZeroPad(n, width) ==
    IF Len(Digits(n)) >= width THEN Digits(n)
    ELSE <<"0">> \o ZeroPad(n, width - 1)

RECURSIVE Replace(_, _, _)
\* str.replace(old, new) for one-character old and new.
Replace(s, old, new) ==
    IF s = <<>> THEN <<>>
    ELSE <<IF Head(s) = old THEN new ELSE Head(s)>> \o Replace(Tail(s), old, new)

\* strftime('%Y%m%d')
StrftimeYmd(t) == ZeroPad(t[1], 4) \o ZeroPad(t[2], 2) \o ZeroPad(t[3], 2)

\* strftime('%Y-%m-%d %H:%M:%S')
StrftimeFull(t) ==
    ZeroPad(t[1], 4) \o <<"-">> \o ZeroPad(t[2], 2) \o <<"-">> \o ZeroPad(t[3], 2)
    \o <<" ">> \o ZeroPad(t[4], 2) \o <<":">> \o ZeroPad(t[5], 2)
    \o <<":">> \o ZeroPad(t[6], 2)

\* ------------------------------------------------------- the inputs drawn
\* App IDs; the keys of a mapping of n apps are the first n, in this order
\* (a dict iterates in insertion order).  UnknownApp is a key of no mapping.
AppIds == <<"com.a.app", "com.b.app", "com.c.app">>
UnknownApp == "com.x.app"

\* Display names: two that differ only by space/underscore, and a third.
NameA == <<"A", " ", "B">>
NameB == <<"A", "_", "B">>
NameC == <<"C">>
Names == {NameA, NameB, NameC}

\* The date datetime.now() gives while the instance is built.
Now == <<2026, 11, 4, 9, 5, 0>>

DefaultDir == "data/raw"
OutDir == "out"

\* What a caller may pass as app_ids_map: a dict (possibly empty) or a list.
DictOf(names) == [kind |-> "dict", items |-> [k \in 1..Len(names) |-> <<AppIds[k], names[k]>>]]
NameSeqs == UNION {[1..n -> Names] : n \in 0..MaxApps}
MapArgs == {DictOf(ns) : ns \in NameSeqs} \cup {[kind |-> "list", items |-> <<>>]}

\* What a caller may pass as raw_data_dir: nothing, None, an int, '' or a path.
DirArgs == {[kind |-> "omitted", v |-> ""], [kind |-> "none", v |-> ""],
            [kind |-> "int", v |-> ""], [kind |-> "str", v |-> ""],
            [kind |-> "str", v |-> OutDir]}

\* ------------------------------------------------------------ file system
\* fs = [dirs |-> the directories that exist, files |-> path :-> content].
\* A path is <<directory, file name>> (os.path.join).  A CSV content is
\* [header |-> None or Some(column names), rows |-> the data rows].
PathJoin(dir, filename) == <<dir, filename>>
PathExists(fs, path) == path \in DOMAIN fs.files

\* os.makedirs(d, exist_ok=True): d and its missing parents.
Makedirs(dirs, d) == dirs \cup (IF d = DefaultDir THEN {"data", d} ELSE {d})

EmptyFile == [header |-> None, rows |-> <<>>]
\* A file some earlier process left at a path ("header\n" in the tests).
ForeignFile == [header |-> Some(<<"header">>), rows |-> <<>>]

\* ---------------------------------------------------------------- __init__
\* The raw_data_dir parameter: the default when the argument is omitted.
ParamDir(argDir) ==
    IF argDir.kind = "omitted" THEN [kind |-> "str", v |-> DefaultDir] ELSE argDir

\* isinstance(app_ids_map, dict) and app_ids_map
ValidMap(argMap) == argMap.kind = "dict" /\ argMap.items # <<>>

\* Mutant: the type is checked, the emptiness is not.
ValidDir_TypeOnly(dir) == dir.kind = "str"

\* isinstance(raw_data_dir, str) and raw_data_dir
ValidDir(dir) == dir.kind = "str" /\ dir.v # ""

\* Whether __init__ gets past its two raise statements.
InitAccepts(argMap, argDir) == ValidMap(argMap) /\ ValidDir(ParamDir(argDir))

\* The instance __init__ builds.
NewSelf(argMap, argDir) ==
    [app_ids_map |-> argMap.items,
     raw_data_dir |-> ParamDir(argDir).v,
     today_date_str |-> StrftimeYmd(Now)]

NoSelf == [app_ids_map |-> <<>>, raw_data_dir |-> "", today_date_str |-> <<>>]

\* ------------------------------------------------------------- file naming
Keys(items) == {items[k][1] : k \in 1..Len(items)}

\* dict.get(app_id, default)
MapGet(items, app_id, default) ==
    IF app_id \in Keys(items)
    THEN (CHOOSE it \in Range(items) : it[1] = app_id)[2]
    ELSE default

UnknownName == <<"U", "n", "k", "n", "o", "w", "n", "_", "A", "p", "p">>

\* self.app_ids_map.get(app_id, 'Unknown_App').replace(' ', '_')
BankName(self, app_id) ==
    Replace(MapGet(self.app_ids_map, app_id, UnknownName), " ", "_")

\* f'{bank_name}_raw_{self.today_date_str}.csv'
RawFilename(self, app_id) ==
    BankName(self, app_id) \o <<"_", "r", "a", "w", "_">> \o self.today_date_str
    \o <<".", "c", "s", "v">>

RawFilepath(self, app_id) == PathJoin(self.raw_data_dir, RawFilename(self, app_id))

\* ------------------------------------------------------ scrape_app_reviews
\* The call scrape_app_reviews makes to reviews_all.
ReviewsAllCall(app_id) ==
    [app_id |-> app_id, lang |-> "en", country |-> "us", sort |-> "NEWEST",
     filter_score_with |-> None, sleep_milliseconds |-> 100]

ExistsOp(path) == [op |-> "exists", path |-> path]
OpenOp(path) == [op |-> "open_w", path |-> path]

\* Mutant: the membership test is missing.
NotInMap_Never(self, app_id) == FALSE

\* app_id not in self.app_ids_map
NotInMap(self, app_id) == app_id \notin Keys(self.app_ids_map)

\* Mutant: no check that today's file exists; reviews_all is always called.
ScrapeAppReviews_NoSkip(self, fs, app_id, outcome) ==
    IF NotInMap(self, app_id)
    THEN [ret |-> None, calls |-> <<>>, fsops |-> <<>>]
    ELSE [ret |-> outcome, calls |-> <<ReviewsAllCall(app_id)>>, fsops |-> <<>>]

\* scrape_app_reviews(app_id).  outcome is what reviews_all does if it is
\* called: None when it raises, Some(list) when it returns a list.
\* ret is the value returned (None, or Some(list)); calls are the
\* reviews_all calls made; fsops the file-system operations made.
ScrapeAppReviews(self, fs, app_id, outcome) ==
    IF NotInMap(self, app_id)
    THEN [ret |-> None, calls |-> <<>>, fsops |-> <<>>]
    ELSE LET raw_filepath == RawFilepath(self, app_id)
         IN  IF PathExists(fs, raw_filepath)
             THEN [ret |-> Some(<<>>), calls |-> <<>>,
                   fsops |-> <<ExistsOp(raw_filepath)>>]
             ELSE [ret |-> outcome, calls |-> <<ReviewsAllCall(app_id)>>,
                   fsops |-> <<ExistsOp(raw_filepath)>>]

\* ----------------------------------------------------- save_reviews_to_csv
Fieldnames == <<"review_text", "rating", "date", "app_id", "source">>

\* What csv.writer writes for a field value: '' for None, str(v) otherwise.
CsvField(v) ==
    CASE v.kind = "none" -> <<>>
      [] v.kind = "str" -> v.v
      [] v.kind = "int" -> Digits(v.v[1])
      [] v.kind = "datetime" -> StrftimeFull(v.v)

\* review_date.strftime(...) if isinstance(review_date, datetime) else None
DateStr(entry) ==
    LET review_date == Get(entry, "at", PyNone)
    IN  IF review_date.kind = "datetime"
        THEN PyStr(StrftimeFull(review_date.v))
        ELSE PyNone

\* Mutant: the app_id column is taken from the review when it has one.
RowDict_AppIdFromRecord(entry, app_id) ==
    [review_text |-> CsvField(Get(entry, "content", PyStr(<<>>))),
     rating |-> CsvField(Get(entry, "score", PyNone)),
     date |-> CsvField(DateStr(entry)),
     app_id |-> Get(entry, "app_id", PyStr(app_id)).v,
     source |-> "Google Play"]

\* The dict handed to writer.writerow for one review.
RowDict(entry, app_id) ==
    [review_text |-> CsvField(Get(entry, "content", PyStr(<<>>))),
     rating |-> CsvField(Get(entry, "score", PyNone)),
     date |-> CsvField(DateStr(entry)),
     app_id |-> app_id,
     source |-> "Google Play"]

\* DictWriter.writerow: the dict's values in the order of fieldnames.
WriteRow(rowdict) == [k \in 1..Len(Fieldnames) |-> rowdict[Fieldnames[k]]]

\* The rows the for loop writes for the first n reviews, in list order.
RowsWritten(reviews, app_id, n) ==
    [k \in 1..n |-> WriteRow(RowDict(reviews[k], app_id))]

\* Where the try block may raise: nowhere, in open() (nothing is created),
\* in writeheader() (the file was created empty), or while row k is written
\* (the header and the rows before k are in the file).
NoFailure == [step |-> "none", k |-> 0]
WriteFailures(reviews) ==
    {NoFailure, [step |-> "open", k |-> 0], [step |-> "header", k |-> 0]}
    \cup {[step |-> "row", k |-> k] : k \in 1..Len(reviews)}

\* The file the try block leaves at raw_filepath, given where it raised;
\* None when open() raised.
FileLeft(reviews, app_id, wf) ==
    CASE wf.step = "open" -> None
      [] wf.step = "header" -> Some(EmptyFile)
      [] wf.step = "row" ->
           Some([header |-> Some(Fieldnames),
                 rows |-> RowsWritten(reviews, app_id, wf.k - 1)])
      [] wf.step = "none" ->
           Some([header |-> Some(Fieldnames),
                 rows |-> RowsWritten(reviews, app_id, Len(reviews))])

\* Mutant: an empty list yields None even when today's file exists.
SaveReviewsToCsv_EmptyReturnsNone(self, fs, reviews, app_id, wf) ==
    LET raw_filepath == RawFilepath(self, app_id)
    IN  IF IsNone(reviews) \/ Val(reviews) = <<>>
        THEN [ret |-> None, files |-> fs.files, fsops |-> <<>>]
        ELSE LET left == FileLeft(Val(reviews), app_id, wf)
             IN  [ret |-> IF wf.step = "none" THEN Some(raw_filepath) ELSE None,
                  files |-> IF IsNone(left) THEN fs.files
                            ELSE (raw_filepath :> Val(left)) @@ fs.files,
                  fsops |-> <<OpenOp(raw_filepath)>>]

\* Mutant: an empty list with no file yet writes a file of the header alone.
SaveReviewsToCsv_PlaceholderForEmpty(self, fs, reviews, app_id, wf) ==
    LET raw_filepath == RawFilepath(self, app_id)
    IN  IF IsNone(reviews)
        THEN [ret |-> None, files |-> fs.files, fsops |-> <<>>]
        ELSE IF Val(reviews) = <<>> /\ PathExists(fs, raw_filepath)
        THEN [ret |-> Some(raw_filepath), files |-> fs.files,
              fsops |-> <<ExistsOp(raw_filepath)>>]
        ELSE LET left == FileLeft(Val(reviews), app_id, wf)
             IN  [ret |-> IF wf.step = "none" THEN Some(raw_filepath) ELSE None,
                  files |-> IF IsNone(left) THEN fs.files
                            ELSE (raw_filepath :> Val(left)) @@ fs.files,
                  fsops |-> <<OpenOp(raw_filepath)>>]

\* save_reviews_to_csv(reviews, app_id); reviews is None or Some(list).
\* ret is None or Some(path); files is the file map afterwards.
SaveReviewsToCsv(self, fs, reviews, app_id, wf) ==
    LET raw_filepath == RawFilepath(self, app_id)
    IN  IF IsNone(reviews)
        THEN [ret |-> None, files |-> fs.files, fsops |-> <<>>]
        ELSE IF Val(reviews) = <<>>
        THEN [ret |-> IF PathExists(fs, raw_filepath) THEN Some(raw_filepath) ELSE None,
              files |-> fs.files, fsops |-> <<ExistsOp(raw_filepath)>>]
        ELSE LET left == FileLeft(Val(reviews), app_id, wf)
             IN  [ret |-> IF wf.step = "none" THEN Some(raw_filepath) ELSE None,
                  files |-> IF IsNone(left) THEN fs.files
                            ELSE (raw_filepath :> Val(left)) @@ fs.files,
                  fsops |-> <<OpenOp(raw_filepath)>>]

\* ---------------------------------------------------------- scrape_all_apps
\* Mutant: the path is inserted at the front of the list.
AppendSaved_Prepends(scraped_files, saved_filepath) ==
    IF IsNone(saved_filepath) THEN scraped_files
    ELSE <<Val(saved_filepath)>> \o scraped_files

\* if saved_filepath: scraped_files.append(saved_filepath)
AppendSaved(scraped_files, saved_filepath) ==
    IF IsNone(saved_filepath) THEN scraped_files
    ELSE Append(scraped_files, Val(saved_filepath))

\* if reviews is not None: whether the loop body calls save_reviews_to_csv.
ProceedsToSave(reviews) == ~IsNone(reviews)

\* ------------------------------------------------------------ review dicts
Review(content, score, at, app_id) ==
    [content |-> content, score |-> score, at |-> at, app_id |-> app_id]

Review1 == Review(PyStr(<<"G", "o", "o", "d">>), PyInt(5),
                  PyDatetime(2023, 10, 27, 10, 0, 0), Absent)
Review2 == Review(PyStr(<<"B", "a", "d">>), PyInt(1),
                  PyDatetime(2024, 1, 5, 9, 3, 7), PyStr("com.other.app"))
Review3 == Review(Absent, Absent, Absent, Absent)
Review4 == Review(PyNone, PyNone, PyStr(<<"2", "0", "2", "3">>), Absent)
Reviews == {Review1, Review2, Review3, Review4}

\* The lists a direct caller may hand to save_reviews_to_csv.
ReviewLists == UNION {[1..n -> Reviews] : n \in 0..MaxReviews}

\* The lists the store may hold for an app during a batch run.
FeedLists == {<<>>, <<Review3>>, <<Review1, Review2>>}

\* ------------------------------------------------------------------- state
VARIABLES
    pc,             \* "new", "raised", "idle", "loop", "fetched", "ready", "returned"
    argMap,         \* the app_ids_map argument of the constructor call
    argDir,         \* the raw_data_dir argument of the constructor call
    self,           \* the instance: app_ids_map, raw_data_dir, today_date_str
    dirs,           \* the directories that exist
    files,          \* path :-> content of every file that exists
    i,              \* scrape_all_apps: position of the for loop in the keys
    reviews,        \* scrape_all_apps: the local variable reviews
    scraped_files,  \* scrape_all_apps: the local variable scraped_files
    returned,       \* None, or Some(list the latest scrape_all_apps returned)
    runs,           \* number of scrape_all_apps calls that have returned
    startFiles,     \* the file map when the operation in progress started
    startDirs,      \* the directories that existed before the constructor call
    fetchLog,       \* this run: one record per scrape_app_reviews call
    saveLog,        \* this run: one record per loop body completed
    call            \* a direct method call: its arguments and what it did

vars == <<pc, argMap, argDir, self, dirs, files, i, reviews, scraped_files,
          returned, runs, startFiles, startDirs, fetchLog, saveLog, call>>

fsNow == [dirs |-> dirs, files |-> files]

NoCall == [op |-> "none"]

\* The file names the display names of Names give on the run date.
CandidateFilenames ==
    {Replace(n, " ", "_") \o <<"_", "r", "a", "w", "_">> \o StrftimeYmd(Now)
        \o <<".", "c", "s", "v">> : n \in Names}

\* Files of today's names that an earlier process may have left in OutDir.
InitialFiles ==
    {[p \in {PathJoin(OutDir, f) : f \in S} |-> ForeignFile] :
        S \in SUBSET CandidateFilenames}

InitialDirs == {{}, {OutDir}, {"data", DefaultDir}, {OutDir, "data", DefaultDir}}

OutArg == [kind |-> "str", v |-> OutDir]

\* ------------------------------------------------------------ construction
\* Before the constructor call: its arguments, and a file system in which
\* OutDir, if it exists, may already hold files.
InitNew ==
    /\ pc = "new"
    /\ argMap \in MapArgs
    /\ argDir \in DirArgs
    /\ self = NoSelf
    /\ dirs \in InitialDirs
    /\ files \in IF OutDir \in dirs THEN InitialFiles ELSE {<<>>}
    /\ i = 0
    /\ reviews = None
    /\ scraped_files = <<>>
    /\ returned = None
    /\ runs = 0
    /\ startFiles = files
    /\ startDirs = dirs
    /\ fetchLog = <<>>
    /\ saveLog = <<>>
    /\ call = NoCall

\* GooglePlayScraper(app_ids_map, raw_data_dir): raises ValueError before
\* anything is stored or created, or stores the fields and makes the directory.
Construct ==
    /\ pc = "new"
    /\ IF InitAccepts(argMap, argDir)
       THEN /\ self' = NewSelf(argMap, argDir)
            /\ dirs' = Makedirs(dirs, NewSelf(argMap, argDir).raw_data_dir)
            /\ pc' = "idle"
       ELSE /\ pc' = "raised"
            /\ UNCHANGED <<self, dirs>>
    /\ UNCHANGED <<argMap, argDir, files, i, reviews, scraped_files, returned,
                   runs, startFiles, startDirs, fetchLog, saveLog, call>>

NextNew == Construct

SpecNew == InitNew /\ [][NextNew]_vars

\* --------------------------------------------------------------- batch runs
\* An instance the constructor has built for OutDir, which may hold files.
Init ==
    /\ pc = "idle"
    /\ argMap \in {m \in MapArgs : InitAccepts(m, OutArg)}
    /\ argDir = OutArg
    /\ self = NewSelf(argMap, argDir)
    /\ dirs = Makedirs({}, OutDir)
    /\ files \in InitialFiles
    /\ i = 0
    /\ reviews = None
    /\ scraped_files = <<>>
    /\ returned = None
    /\ runs = 0
    /\ startFiles = files
    /\ startDirs = dirs
    /\ fetchLog = <<>>
    /\ saveLog = <<>>
    /\ call = NoCall

\* scrape_all_apps() is called: scraped_files = [] and the loop starts.
StartRun ==
    /\ pc = "idle"
    /\ runs < MaxRuns
    /\ pc' = "loop"
    /\ i' = 1
    /\ scraped_files' = <<>>
    /\ reviews' = None
    /\ startFiles' = files
    /\ fetchLog' = <<>>
    /\ saveLog' = <<>>
    /\ UNCHANGED <<argMap, argDir, self, dirs, files, returned, runs, startDirs, call>>

\* reviews = self.scrape_app_reviews(app_id).  If reviews_all is called, the
\* store holds some list for the app, and the call raises or returns it.
FetchOne ==
    /\ pc = "loop"
    /\ i <= Len(self.app_ids_map)
    /\ LET app_id == self.app_ids_map[i][1]
       IN  \E raises \in BOOLEAN, held \in FeedLists :
             LET r == ScrapeAppReviews(self, fsNow, app_id,
                                       IF raises THEN None ELSE Some(held))
             IN  /\ reviews' = r.ret
                 /\ fetchLog' = Append(fetchLog,
                       [app_id |-> app_id, ret |-> r.ret, calls |-> r.calls,
                        fsops |-> r.fsops,
                        held |-> IF r.calls = <<>> THEN None ELSE Some(held)])
    /\ pc' = "fetched"
    /\ UNCHANGED <<argMap, argDir, self, dirs, files, i, scraped_files, returned,
                   runs, startFiles, startDirs, saveLog, call>>

\* Mutant: an app for which scrape_app_reviews returned None ends the loop.
Persist_StopsOnNone ==
    /\ pc = "fetched"
    /\ LET app_id == self.app_ids_map[i][1]
       IN  IF ProceedsToSave(reviews)
           THEN /\ \E wf \in WriteFailures(Val(reviews)) :
                    LET s == SaveReviewsToCsv(self, fsNow, reviews, app_id, wf)
                    IN  /\ files' = s.files
                        /\ scraped_files' = AppendSaved(scraped_files, s.ret)
                        /\ saveLog' = Append(saveLog,
                              [app_id |-> app_id, called |-> TRUE, ret |-> s.ret,
                               fsops |-> s.fsops,
                               raised |-> IF Val(reviews) = <<>> THEN "none" ELSE wf.step])
                /\ i' = i + 1
           ELSE /\ saveLog' = Append(saveLog,
                      [app_id |-> app_id, called |-> FALSE, ret |-> None,
                       fsops |-> <<>>, raised |-> "none"])
                /\ i' = Len(self.app_ids_map) + 1
                /\ UNCHANGED <<files, scraped_files>>
    /\ pc' = "loop"
    /\ UNCHANGED <<argMap, argDir, self, dirs, reviews, returned, runs,
                   startFiles, startDirs, fetchLog, call>>

\* The rest of the loop body: save_reviews_to_csv unless reviews is None, and
\* the append; the write may raise at any point of the try block.
Persist ==
    /\ pc = "fetched"
    /\ LET app_id == self.app_ids_map[i][1]
       IN  IF ProceedsToSave(reviews)
           THEN \E wf \in WriteFailures(Val(reviews)) :
                  LET s == SaveReviewsToCsv(self, fsNow, reviews, app_id, wf)
                  IN  /\ files' = s.files
                      /\ scraped_files' = AppendSaved(scraped_files, s.ret)
                      /\ saveLog' = Append(saveLog,
                            [app_id |-> app_id, called |-> TRUE, ret |-> s.ret,
                             fsops |-> s.fsops,
                             raised |-> IF Val(reviews) = <<>> THEN "none" ELSE wf.step])
           ELSE /\ saveLog' = Append(saveLog,
                      [app_id |-> app_id, called |-> FALSE, ret |-> None,
                       fsops |-> <<>>, raised |-> "none"])
                /\ UNCHANGED <<files, scraped_files>>
    /\ i' = i + 1
    /\ pc' = "loop"
    /\ UNCHANGED <<argMap, argDir, self, dirs, reviews, returned, runs,
                   startFiles, startDirs, fetchLog, call>>

\* The loop is over: return scraped_files.
Return ==
    /\ pc = "loop"
    /\ i > Len(self.app_ids_map)
    /\ returned' = Some(scraped_files)
    /\ runs' = runs + 1
    /\ pc' = "idle"
    /\ i' = 0
    /\ scraped_files' = <<>>
    /\ startFiles' = files
    /\ fetchLog' = <<>>
    /\ saveLog' = <<>>
    /\ UNCHANGED <<argMap, argDir, self, dirs, files, reviews, startDirs, call>>

Next == StartRun \/ FetchOne \/ Persist \/ Return

Spec == Init /\ [][Next]_vars

\* ------------------------------------------------------------ direct calls
\* An instance the constructor has built, on which a caller calls one method.
InitCall ==
    /\ pc = "ready"
    /\ argMap \in {m \in MapArgs : InitAccepts(m, OutArg)}
    /\ argDir = OutArg
    /\ self = NewSelf(argMap, argDir)
    /\ dirs = Makedirs({}, OutDir)
    /\ files \in InitialFiles
    /\ i = 0
    /\ reviews = None
    /\ scraped_files = <<>>
    /\ returned = None
    /\ runs = 0
    /\ startFiles = files
    /\ startDirs = dirs
    /\ fetchLog = <<>>
    /\ saveLog = <<>>
    /\ call = NoCall

\* The app IDs a caller may pass: the keys of the mapping and one that is not.
CallerAppIds == Keys(self.app_ids_map) \cup {UnknownApp}

\* scraper.scrape_app_reviews(app_id), for any app_id.
CallScrape ==
    /\ pc = "ready"
    /\ \E app_id \in CallerAppIds, raises \in BOOLEAN, held \in FeedLists :
         LET r == ScrapeAppReviews(self, fsNow, app_id,
                                   IF raises THEN None ELSE Some(held))
         IN  call' = [op |-> "scrape_app_reviews", app_id |-> app_id,
                      arg |-> None, ret |-> r.ret, calls |-> r.calls,
                      fsops |-> r.fsops, raised |-> "none"]
    /\ pc' = "returned"
    /\ UNCHANGED <<argMap, argDir, self, dirs, files, i, reviews, scraped_files,
                   returned, runs, startFiles, startDirs, fetchLog, saveLog>>

\* scraper.save_reviews_to_csv(reviews, app_id), for None or any list and
\* any app_id; the write may raise at any point of the try block.
CallSave ==
    /\ pc = "ready"
    /\ \E app_id \in CallerAppIds,
          arg \in {None} \cup {Some(l) : l \in ReviewLists} :
         \E wf \in IF IsNone(arg) \/ arg = Some(<<>>) THEN {NoFailure}
                   ELSE WriteFailures(Val(arg)) :
           LET s == SaveReviewsToCsv(self, fsNow, arg, app_id, wf)
           IN  /\ files' = s.files
               /\ call' = [op |-> "save_reviews_to_csv", app_id |-> app_id,
                           arg |-> arg, ret |-> s.ret, calls |-> <<>>,
                           fsops |-> s.fsops, raised |-> wf.step]
    /\ pc' = "returned"
    /\ UNCHANGED <<argMap, argDir, self, dirs, i, reviews, scraped_files,
                   returned, runs, startFiles, startDirs, fetchLog, saveLog>>

NextCall == CallScrape \/ CallSave

SpecCall == InitCall /\ [][NextCall]_vars

\* ------------------------------------------------- reading a run's history
NApps == Len(self.app_ids_map)
AppAt(k) == self.app_ids_map[k][1]
PathAt(k) == RawFilepath(self, AppAt(k))
InRun == pc \in {"loop", "fetched"}
\* The loop is over and scraped_files is about to be returned.
AtReturn == pc = "loop" /\ i > NApps
\* A run that started after an earlier run returned.
LaterRun == InRun /\ runs >= 1

\* The display names stay pairwise distinct once spaces become underscores.
DistinctNames ==
    \A j, k \in 1..NApps :
        j # k => Replace(self.app_ids_map[j][2], " ", "_")
                    # Replace(self.app_ids_map[k][2], " ", "_")

\* reviews_all was called for the k-th app in this run.
Invoked(k) == fetchLog[k].calls # <<>>
FetchRaised(k) == Invoked(k) /\ IsNone(fetchLog[k].ret)
GotNonEmpty(k) == Invoked(k) /\ ~IsNone(fetchLog[k].ret) /\ Val(fetchLog[k].ret) # <<>>
GotEmpty(k) == Invoked(k) /\ fetchLog[k].ret = Some(<<>>)
WriteRaised(k) == saveLog[k].raised # "none"
Failed(k) == FetchRaised(k) \/ WriteRaised(k)

RECURSIVE Flatten(_)
\* The values of a sequence of optional values, in order, None dropped.
Flatten(opts) == IF opts = <<>> THEN <<>> ELSE Head(opts) \o Flatten(Tail(opts))

\* The run that would have happened from startFiles had nothing raised:
\* entry k is what save_reviews_to_csv would have returned for the k-th app.
RECURSIVE FailureFree(_, _)
FailureFree(fmap, k) ==
    IF k > NApps THEN <<>>
    ELSE LET fs == [dirs |-> dirs, files |-> fmap]
             r == ScrapeAppReviews(self, fs, AppAt(k), fetchLog[k].held)
             s == SaveReviewsToCsv(self, fs, r.ret, AppAt(k), NoFailure)
         IN  <<s.ret>> \o FailureFree(s.files, k + 1)

\* ------------------------------------------------------------------ claims

C2_ManifestIdempotent ==
    (AtReturn /\ runs >= 1 /\ DistinctNames
       /\ \A k \in 1..NApps : Invoked(k) => FetchRaised(k)) =>
        scraped_files = Val(returned)

\* C3, as stated: a run that follows another calls reviews_all for no app, and
\* every path it returns is the path of a file the earlier run left.
C3_NoFetchInLaterRun ==
    LaterRun =>
        /\ \A k \in 1..Len(fetchLog) : ~Invoked(k)
        /\ Range(scraped_files) \subseteq DOMAIN startFiles

\* C3, amended: a run that follows another calls reviews_all for no app whose
\* path the earlier run returned, and returns each such path again, the file
\* at it unchanged; any other path it returns is that of a file it wrote.
C3_NoFetchForReturnedPaths ==
    LaterRun =>
        /\ \A k \in 1..NApps :
             PathAt(k) \in Range(Val(returned)) =>
                /\ k <= Len(fetchLog) => ~Invoked(k)
                /\ k <= Len(saveLog) => saveLog[k].ret = Some(PathAt(k))
                /\ AtReturn => PathAt(k) \in Range(scraped_files)
                /\ PathAt(k) \in DOMAIN files
                /\ files[PathAt(k)] = startFiles[PathAt(k)]
        /\ \A p \in Range(scraped_files) :
             p \notin DOMAIN startFiles =>
                \E j \in 1..Len(saveLog) :
                    /\ saveLog[j].fsops = <<OpenOp(p)>>
                    /\ saveLog[j].raised # "open"

C3_Witness ==
    /\ AtReturn /\ runs >= 1
    /\ \E k \in 1..NApps : PathAt(k) \in Range(Val(returned))
    /\ \E k \in 1..NApps : GotNonEmpty(k) /\ saveLog[k].ret = Some(PathAt(k))

\* C4, as stated: when reviews_all or the write raises for one app, every
\* other app still goes through scrape_app_reviews and save_reviews_to_csv,
\* and the list returned is the one the run would have returned had nothing
\* raised, without the entry of the app that failed.
C4_FailureIsolated ==
    (AtReturn /\ Cardinality({k \in 1..NApps : Failed(k)}) = 1) =>
        /\ Len(fetchLog) = NApps /\ Len(saveLog) = NApps
        /\ \A k \in 1..NApps : ~Failed(k) => saveLog[k].called
        /\ scraped_files =
             Flatten([k \in 1..NApps |->
                        IF Failed(k) THEN None ELSE FailureFree(startFiles, 1)[k]])

\* C4, amended: the same, for mappings whose display names stay pairwise
\* distinct once spaces become underscores, whatever the number of apps that
\* failed.
C4_FailureIsolatedDistinct ==
    (AtReturn /\ DistinctNames) =>
        /\ Len(fetchLog) = NApps /\ Len(saveLog) = NApps
        /\ \A k \in 1..NApps : ~Failed(k) => saveLog[k].called
        /\ scraped_files =
             Flatten([k \in 1..NApps |->
                        IF Failed(k) THEN None ELSE FailureFree(startFiles, 1)[k]])

C4_Witness ==
    /\ AtReturn /\ DistinctNames /\ NApps >= 2
    /\ Cardinality({k \in 1..NApps : Failed(k)}) = 1
    /\ \E k \in 1..NApps : Failed(k) /\ ~IsNone(FailureFree(startFiles, 1)[k])
    /\ scraped_files # <<>>

\* C5: a file that exists at an app's path when scrape_all_apps starts keeps
\* its content throughout the run, reviews_all is not called for that app,
\* and the path is in the list returned.
C5_ExistingFileAuthoritative ==
    InRun =>
        \A k \in 1..NApps :
            PathAt(k) \in DOMAIN startFiles =>
                /\ k <= Len(fetchLog) => ~Invoked(k)
                /\ PathAt(k) \in DOMAIN files
                /\ files[PathAt(k)] = startFiles[PathAt(k)]
                /\ k <= Len(saveLog) => saveLog[k].fsops = <<ExistsOp(PathAt(k))>>
                /\ AtReturn => PathAt(k) \in Range(scraped_files)

C5_Witness ==
    /\ AtReturn /\ runs = 0 /\ NApps >= 2
    /\ \E k \in 1..NApps : PathAt(k) \in DOMAIN startFiles
    /\ \E k \in 1..NApps : GotNonEmpty(k) /\ saveLog[k].raised = "none"

\* C9: the list scrape_all_apps builds is, in the order of the mapping's keys,
\* the paths save_reviews_to_csv returned; an app for which scrape_app_reviews
\* returned None, or save_reviews_to_csv returned None, adds nothing.
C9_ManifestIsSavedPaths ==
    InRun =>
        /\ \A k \in 1..Len(fetchLog) : fetchLog[k].app_id = AppAt(k)
        /\ \A k \in 1..Len(saveLog) :
              /\ saveLog[k].app_id = AppAt(k)
              /\ IsNone(fetchLog[k].ret) => ~saveLog[k].called
              /\ ~saveLog[k].called => IsNone(saveLog[k].ret)
        /\ scraped_files = Flatten([k \in 1..Len(saveLog) |-> saveLog[k].ret])
        /\ Len(scraped_files) =
              Cardinality({k \in 1..Len(saveLog) : ~IsNone(saveLog[k].ret)})

C9_Witness ==
    /\ AtReturn /\ NApps >= 2
    /\ IsNone(saveLog[1].ret)
    /\ ~IsNone(saveLog[2].ret)

\* C10: a write that raised in save_reviews_to_csv leaves no file at the
\* app's path (so that no later run, which skips the fetch when the file
\* exists, can return the path of a partly written file).
C10_FailedWriteLeavesNoFile ==
    (pc = "loop" /\ saveLog # <<>> /\ WriteRaised(Len(saveLog))) =>
        PathAt(Len(saveLog)) \notin DOMAIN files

\* --- direct calls (SpecCall)

RECURSIVE ParseNat(_)
\* The number a sequence of decimal digits denotes; -1 if it is not one.
ParseNat(chars) ==
    IF chars = <<>> THEN -1
    ELSE LET last == chars[Len(chars)]
             d == IF \E n \in 0..9 : Digit(n) = last
                  THEN CHOOSE n \in 0..9 : Digit(n) = last ELSE -1
             front == SubSeq(chars, 1, Len(chars) - 1)
         IN  IF d = -1 THEN -1
             ELSE IF front = <<>> THEN d
             ELSE IF ParseNat(front) = -1 THEN -1
             ELSE 10 * ParseNat(front) + d

\* text has the shape YYYY-MM-DD HH:MM:SS and spells the datetime t.
SpellsDatetime(text, t) ==
    /\ Len(text) = 19
    /\ text[5] = "-" /\ text[8] = "-" /\ text[11] = " "
    /\ text[14] = ":" /\ text[17] = ":"
    /\ ParseNat(SubSeq(text, 1, 4)) = t[1]
    /\ ParseNat(SubSeq(text, 6, 7)) = t[2]
    /\ ParseNat(SubSeq(text, 9, 10)) = t[3]
    /\ ParseNat(SubSeq(text, 12, 13)) = t[4]
    /\ ParseNat(SubSeq(text, 15, 16)) = t[5]
    /\ ParseNat(SubSeq(text, 18, 19)) = t[6]

\* save_reviews_to_csv was called with a non-empty list and nothing raised.
SavedList ==
    /\ pc = "returned"
    /\ call.op = "save_reviews_to_csv"
    /\ ~IsNone(call.arg) /\ Val(call.arg) # <<>>
    /\ call.raised = "none"

\* C6: after save_reviews_to_csv has written a list of N reviews for an app
\* id, the file holds the header review_text, rating, date, app_id, source and
\* N rows in the order of the list; row k has review k's content ('' if there
\* is none), its score (empty if there is none), its timestamp spelled
\* YYYY-MM-DD HH:MM:SS (empty if it has no datetime), the app id that was
\* passed, whatever the review holds, and 'Google Play'.
C6_RowFidelity ==
    SavedList =>
        LET list == Val(call.arg)
            file == files[Val(call.ret)]
        IN  /\ ~IsNone(call.ret)
            /\ file.header = Some(<<"review_text", "rating", "date", "app_id", "source">>)
            /\ Len(file.rows) = Len(list)
            /\ \A k \in 1..Len(list) :
                 LET row == file.rows[k]
                     e == list[k]
                 IN  /\ Len(row) = 5
                     /\ row[1] = (IF e.content.kind = "str" THEN e.content.v ELSE <<>>)
                     /\ IF e.score.kind = "int"
                        THEN ParseNat(row[2]) = e.score.v[1]
                        ELSE row[2] = <<>>
                     /\ IF e.at.kind = "datetime"
                        THEN SpellsDatetime(row[3], e.at.v)
                        ELSE row[3] = <<>>
                     /\ row[4] = call.app_id
                     /\ row[5] = "Google Play"

C6_Witness ==
    /\ SavedList
    /\ Len(Val(call.arg)) = 2
    /\ Val(call.arg)[1] # Val(call.arg)[2]
    /\ \E k \in 1..2 : Val(call.arg)[k].at.kind = "datetime"
    /\ \E k \in 1..2 : Val(call.arg)[k].at.kind # "datetime"
    /\ \E k \in 1..2 : /\ Val(call.arg)[k].app_id.kind = "str"
                       /\ Val(call.arg)[k].app_id.v # call.app_id

\* C7: scrape_app_reviews called with an app id that is no key of the mapping
\* returns None, calls reviews_all not at all, and makes no file-system
\* operation; the files are as they were.
C7_UnknownAppUntouched ==
    (pc = "returned" /\ call.op = "scrape_app_reviews"
       /\ call.app_id \notin Keys(self.app_ids_map)) =>
        /\ IsNone(call.ret)
        /\ call.calls = <<>>
        /\ call.fsops = <<>>
        /\ files = startFiles
        /\ dirs = startDirs

C7_Witness ==
    /\ pc = "returned" /\ call.op = "scrape_app_reviews"
    /\ call.app_id = UnknownApp
    /\ DOMAIN files # {}

\* --- construction (SpecNew)

BadMapArg == argMap.kind # "dict" \/ argMap.items = <<>>

\* C8, as stated: the constructor called with an empty mapping or with what is
\* no dict, or with a missing, empty or non-string raw_data_dir, raises and
\* leaves the directories and files as they were.
C8_BadArgsRaise ==
    (pc # "new" /\ (BadMapArg \/ argDir.kind \in {"omitted", "none", "int"}
                     \/ argDir = [kind |-> "str", v |-> ""])) =>
        /\ pc = "raised"
        /\ dirs = startDirs
        /\ files = startFiles

\* C8, amended: the same when raw_data_dir is passed and is None, empty or
\* no string; when raw_data_dir is omitted and the mapping is a non-empty
\* dict, the constructor takes 'data/raw', does not raise and makes it.
C8_BadArgsRaiseUnlessOmitted ==
    /\ (pc # "new" /\ (BadMapArg \/ argDir.kind \in {"none", "int"}
                        \/ argDir = [kind |-> "str", v |-> ""])) =>
           /\ pc = "raised"
           /\ dirs = startDirs
           /\ files = startFiles
    /\ (pc # "new" /\ ~BadMapArg /\ argDir.kind = "omitted") =>
           /\ pc = "idle"
           /\ self.raw_data_dir = DefaultDir
           /\ DefaultDir \in dirs

C8_Witness ==
    /\ pc = "raised"
    /\ ~BadMapArg
    /\ argDir.kind = "none"
    /\ dirs = {}

====
